---- MODULE Spec2Model ----
(***************************************************************************)
(* Fellow MCP server: the resilient call helper `call` (server.ts) and the *)
(* operations built on it.  One invocation is a process p; its control     *)
(* position is pc[p], and every request handed to the HTTP client, every   *)
(* response the client produced and every timer the invocation armed is    *)
(* kept in a per-invocation log so that properties can count them.         *)
(***************************************************************************)
EXTENDS Integers, Sequences, FiniteSets, TLC

VARIABLES
  kind,       \* which operation the invocation runs: "none", "call", "list"
  pc,         \* control position: "idle", "await", "backoff", "ret", "pause", "done"
  cfg,        \* call's parameter cfg: {method, url, data}
  attempt,    \* call's loop variable `attempt`
  delay,      \* call's local `delay`
  requests,   \* log of the arguments of http.request, in issue order
  responses,  \* log of what http.request resolved or rejected with
  waits,      \* log of the durations of call's backoff timers
  result,     \* how the current `call` ended: pending, return, throw
  args,       \* the list operation's input: template, page_size, max_pages
  cursor,     \* aggregation: cursor to send with the next page
  items,      \* aggregation: accumulator
  page,       \* aggregation: loop index i (pages fetched so far)
  pauses,     \* log of the durations of the inter-page timers
  outcome     \* how the invocation ended, as its caller sees it

callVars == <<cfg, attempt, delay, requests, responses, waits, result>>
aggVars  == <<args, cursor, items, page, pauses>>
vars     == <<kind, pc, cfg, attempt, delay, requests, responses, waits, result,
              args, cursor, items, page, pauses, outcome>>

----------------------------------------------------------------------------
(* Values.  An optional value is <<>> (undefined / null) or <<v>>.          *)

None == <<>>
Some(v) == <<v>>
IsSome(o) == o /= <<>>
Get(o) == o[1]

\* a ?? b
Coalesce(a, b) == IF IsSome(a) THEN a ELSE b

Procs == {"a", "b"}
Main == "a"

\* e?.response?.status of an error that carries no response
NoStatus == 0

\* Upstream statuses the environment may answer with, around every
\* boundary of the classification in call's catch block.
TerminalStatuses == {NoStatus, 400, 404, 428, 430, 499, 600}
RetryableStatuses == {429, 500, 599}
Statuses == TerminalStatuses \cup RetryableStatuses


\* Errors the HTTP client rejects with: axios errors (with response.status)
\* and network-level errors (no response).
TransportError(s, m) == [status |-> s, message |-> m, origin |-> "transport"]
TransportErrors ==
  {TransportError(s, "boom") : s \in Statuses} \cup {TransportError(429, "rate limited")}

\* new Error('Upstream unavailable after retries')
ExhaustedError ==
  [status |-> NoStatus, message |-> "Upstream unavailable after retries", origin |-> "call"]

\* A decoded response body: the envelope of a list page.  Each of the four
\* places items and cursor can sit in is present or not.
Body(nd, nc, rd, rc) ==
  [namedData |-> nd, namedCursor |-> nc, rootData |-> rd, rootCursor |-> rc]

Pending == [type |-> "pending", body |-> None, err |-> None]
Return(b) == [type |-> "return", body |-> Some(b), err |-> None]
Throw(e) == [type |-> "throw", body |-> None, err |-> Some(e)]

Ok(b) == [ok |-> TRUE, data |-> Some(b), err |-> None]
Fail(e) == [ok |-> FALSE, data |-> None, err |-> Some(e)]

----------------------------------------------------------------------------
(* call: retry for 429/5xx with jitter                                      *)

InitialDelay == 300

MaxAttempts == 4

\* the loop condition `attempt <= 4`
WithinBudgetUnbounded(att) == TRUE
WithinBudgetOffByOne(att) == att < MaxAttempts
WithinBudget(att) == att <= MaxAttempts

JitterRange == 200

\* Math.random() * 200, at the granularity of the timer (whole units):
\* the two ends of [0, 200).
Jitters == {0, JitterRange - 1}

\* the test on e?.response?.status in the catch block
IsRetryableNo429(status) == status >= 500 /\ status <= 599
IsRetryableAny4xx(status) == status >= 400 /\ status <= 599
IsRetryableAlways(status) == TRUE
IsRetryable(status) == status = 429 \/ (status >= 500 /\ status <= 599)

BackoffWaitNoJitterBound(d, j) == d + 2 * j
BackoffWait(d, j) == d + j

NextDelayLinear(d) == d + InitialDelay
NextDelay(d) == d * 2

HttpRequestNoData(c) == [method |-> c.method, url |-> c.url, data |-> None]
HttpRequest(c) == [method |-> c.method, url |-> c.url, data |-> c.data]

ResDataEmpty(res) == Body(None, None, None, None)
ResData(res) == Get(res.data)

\* the loop head with `attempt` and `delay` declared at module level
ForLoopSharedState(p, c, att, d) ==
  /\ attempt' = [q \in Procs |-> att]
  /\ delay' = [q \in Procs |-> d]
  /\ IF WithinBudget(att)
       THEN /\ requests' = [requests EXCEPT ![p] = Append(@, HttpRequest(c))]
            /\ pc' = [pc EXCEPT ![p] = "await"]
            /\ result' = [result EXCEPT ![p] = Pending]
       ELSE /\ result' = [result EXCEPT ![p] = Throw(ExhaustedError)]
            /\ pc' = [pc EXCEPT ![p] = "ret"]
            /\ UNCHANGED requests

\* the loop head rethrowing the last upstream error on exhaustion
ForLoopThrowLast(p, c, att, d) ==
  /\ attempt' = [attempt EXCEPT ![p] = att]
  /\ delay' = [delay EXCEPT ![p] = d]
  /\ IF WithinBudget(att)
       THEN /\ requests' = [requests EXCEPT ![p] = Append(@, HttpRequest(c))]
            /\ pc' = [pc EXCEPT ![p] = "await"]
            /\ result' = [result EXCEPT ![p] = Pending]
       ELSE /\ result' = [result EXCEPT ![p] =
                           Throw(Get(responses[p][Len(responses[p])].err))]
            /\ pc' = [pc EXCEPT ![p] = "ret"]
            /\ UNCHANGED requests

\* the loop head handing the request to the client twice without awaiting
\* the first
ForLoopHedged(p, c, att, d) ==
  /\ attempt' = [attempt EXCEPT ![p] = att]
  /\ delay' = [delay EXCEPT ![p] = d]
  /\ IF WithinBudget(att)
       THEN /\ requests' = [requests EXCEPT ![p] =
                             Append(Append(@, HttpRequest(c)), HttpRequest(c))]
            /\ pc' = [pc EXCEPT ![p] = "await"]
            /\ result' = [result EXCEPT ![p] = Pending]
       ELSE /\ result' = [result EXCEPT ![p] = Throw(ExhaustedError)]
            /\ pc' = [pc EXCEPT ![p] = "ret"]
            /\ UNCHANGED requests

\* the loop head sending retries without the descriptor's data
ForLoopRetryNoData(p, c, att, d) ==
  /\ attempt' = [attempt EXCEPT ![p] = att]
  /\ delay' = [delay EXCEPT ![p] = d]
  /\ IF WithinBudget(att)
       THEN /\ requests' = [requests EXCEPT ![p] =
                             Append(@, IF att = 1 THEN HttpRequest(c)
                                                  ELSE HttpRequestNoData(c))]
            /\ pc' = [pc EXCEPT ![p] = "await"]
            /\ result' = [result EXCEPT ![p] = Pending]
       ELSE /\ result' = [result EXCEPT ![p] = Throw(ExhaustedError)]
            /\ pc' = [pc EXCEPT ![p] = "ret"]
            /\ UNCHANGED requests

\* The head of call's for loop, entered with `attempt` = att and `delay` = d:
\* either the next request is handed to the HTTP client or the loop is left
\* and the exhaustion error is thrown.
ForLoop(p, c, att, d) ==
  /\ attempt' = [attempt EXCEPT ![p] = att]
  /\ delay' = [delay EXCEPT ![p] = d]
  /\ IF WithinBudget(att)
       THEN /\ requests' = [requests EXCEPT ![p] = Append(@, HttpRequest(c))]
            /\ pc' = [pc EXCEPT ![p] = "await"]
            /\ result' = [result EXCEPT ![p] = Pending]
       ELSE /\ result' = [result EXCEPT ![p] = Throw(ExhaustedError)]
            /\ pc' = [pc EXCEPT ![p] = "ret"]
            /\ UNCHANGED requests

\* call(c) entered without re-initialising `attempt`
CallEnterStale(p, c) ==
  /\ cfg' = [cfg EXCEPT ![p] = c]
  /\ ForLoop(p, c, (attempt[p] % MaxAttempts) + 1, InitialDelay)

\* call(c) up to its first await
CallEnter(p, c) ==
  /\ cfg' = [cfg EXCEPT ![p] = c]
  /\ ForLoop(p, c, 1, InitialDelay)

\* http.request resolves with body b: return res.data
HttpResolve(p, b) ==
  /\ pc[p] = "await"
  /\ responses' = [responses EXCEPT ![p] = Append(@, Ok(b))]
  /\ result' = [result EXCEPT ![p] = Return(ResData(Ok(b)))]
  /\ pc' = [pc EXCEPT ![p] = "ret"]
  /\ UNCHANGED <<kind, cfg, attempt, delay, requests, waits, aggVars, outcome>>

\* http.request rejects with e: the catch block; j is the draw of Math.random
HttpReject(p, e, j) ==
  /\ pc[p] = "await"
  /\ responses' = [responses EXCEPT ![p] = Append(@, Fail(e))]
  /\ IF IsRetryable(e.status)
       THEN /\ waits' = [waits EXCEPT ![p] = Append(@, BackoffWait(delay[p], j))]
            /\ pc' = [pc EXCEPT ![p] = "backoff"]
            /\ UNCHANGED result
       ELSE /\ result' = [result EXCEPT ![p] = Throw(e)]
            /\ pc' = [pc EXCEPT ![p] = "ret"]
            /\ UNCHANGED waits
  /\ UNCHANGED <<kind, cfg, attempt, delay, requests, aggVars, outcome>>

\* the backoff timer fires: delay *= 2; continue
BackoffDone(p) ==
  /\ pc[p] = "backoff"
  /\ ForLoop(p, cfg[p], attempt[p] + 1, NextDelay(delay[p]))
  /\ UNCHANGED <<kind, cfg, responses, waits, aggVars, outcome>>

----------------------------------------------------------------------------
(* A direct invocation of call, as in tests/call.test.ts                    *)

EmptyData == [include |-> None, filters |-> None, pagination |-> None]

Cfgs ==
  { [method |-> "get", url |-> "/notes", data |-> None],
    [method |-> "get", url |-> "/me", data |-> None],
    [method |-> "post", url |-> "/notes", data |-> Some(EmptyData)] }

PlainBodies ==
  { Body(None, None, None, None),
    Body(None, None, Some(<<"n1">>), None) }

InvokeCall(p, c) ==
  /\ pc[p] = "idle"
  /\ kind' = [kind EXCEPT ![p] = "call"]
  /\ CallEnter(p, c)
  /\ UNCHANGED <<responses, waits, aggVars, outcome>>

\* the caller's await on call(...) settles
CallSettled(p) ==
  /\ pc[p] = "ret"
  /\ kind[p] = "call"
  /\ outcome' = [outcome EXCEPT ![p] = result[p]]
  /\ pc' = [pc EXCEPT ![p] = "done"]
  /\ UNCHANGED <<kind, callVars, aggVars>>

----------------------------------------------------------------------------
(* The paginated aggregator behind list_notes / list_recordings: a loop of  *)
(* page fetches through call, accumulating the pages' items.                *)

MaxPagesBound == 3
MaxUpstreamFailures == 4

InterPageDelay == 350

\* items of a page: nested under the named key first, then at the root,
\* else the empty sequence
ExtractItemsRootFirst(b) ==
  Get(Coalesce(b.rootData, Coalesce(b.namedData, Some(<<>>))))
ExtractItems(b) == Get(Coalesce(b.namedData, Coalesce(b.rootData, Some(<<>>))))

\* next cursor of a page: nested page_info first, then the root page_info
ExtractCursorNestedOnly(b) == b.namedCursor
ExtractCursor(b) == Coalesce(b.namedCursor, b.rootCursor)

\* the request body of one page: the template merged with the pagination
PageBody(a, cur) ==
  [include |-> a.include, filters |-> a.filters,
   pagination |-> Some([cursor |-> cur, page_size |-> a.page_size])]

PageCfg(a, cur) == [method |-> "post", url |-> a.url, data |-> Some(PageBody(a, cur))]

AggregateCountDistinct(its) ==
  [count |-> Cardinality({its[i] : i \in DOMAIN its}), items |-> its]
Aggregate(its) == [count |-> Len(its), items |-> its]

\* after page i (0-based) returned a cursor: pause only if another iteration
\* remains under max_pages
PauseBeforeNextAlways(i, mp) == TRUE
PauseBeforeNext(i, mp) == i + 1 < mp

NotesInput(ps, mp) ==
  [url |-> "/notes",
   include |-> Some([content_markdown |-> FALSE, event_attendees |-> FALSE]),
   filters |-> None, page_size |-> ps, max_pages |-> mp]

RecordingsInput(ps, mp) ==
  [url |-> "/recordings",
   include |-> Some([transcript |-> TRUE]),
   filters |-> None, page_size |-> ps, max_pages |-> mp]

ListInputs ==
  {NotesInput(ps, mp) : ps \in {1, 2}, mp \in 1..MaxPagesBound}
    \cup {RecordingsInput(2, mp) : mp \in 1..MaxPagesBound}

NestedPage(its, cur) == Body(Some(its), cur, None, None)
FlatPage(its, cur) == Body(None, None, Some(its), cur)

\* Pages the upstream may answer with: both envelope shapes, cursors that
\* continue and that end, items that repeat across pages.
Pages ==
  { NestedPage(<<"n1">>, Some("cursor-1")),
    NestedPage(<<"n1", "n2">>, Some("cursor-2")),
    NestedPage(<<"n2">>, None),
    FlatPage(<<"n1">>, Some("cursor-1")),
    FlatPage(<<"n2">>, Some("cursor-2")),
    FlatPage(<<"n1", "n2">>, None) }

PageErrors == {TransportError(429, "rate limited"), TransportError(404, "boom")}

\* the tool handler up to its first await: the first page is requested
InvokeList(p, a) ==
  /\ pc[p] = "idle"
  /\ kind' = [kind EXCEPT ![p] = "list"]
  /\ args' = [args EXCEPT ![p] = a]
  /\ cursor' = [cursor EXCEPT ![p] = None]
  /\ items' = [items EXCEPT ![p] = <<>>]
  /\ page' = [page EXCEPT ![p] = 0]
  /\ CallEnter(p, PageCfg(a, None))
  /\ UNCHANGED <<responses, waits, pauses, outcome>>

\* the await on call(...) of one page settles: the rest of the iteration
PageSettled(p) ==
  /\ pc[p] = "ret"
  /\ kind[p] = "list"
  /\ IF result[p].type = "throw"
       THEN /\ outcome' = [outcome EXCEPT ![p] = result[p]]
            /\ pc' = [pc EXCEPT ![p] = "done"]
            /\ UNCHANGED <<cursor, items, page, pauses>>
       ELSE LET b == Get(result[p].body)
                acc == items[p] \o ExtractItems(b)
                next == ExtractCursor(b)
            IN /\ items' = [items EXCEPT ![p] = acc]
               /\ page' = [page EXCEPT ![p] = @ + 1]
               /\ IF ~IsSome(next)
                    THEN /\ outcome' = [outcome EXCEPT ![p] = Return(Aggregate(acc))]
                         /\ pc' = [pc EXCEPT ![p] = "done"]
                         /\ UNCHANGED <<cursor, pauses>>
                    ELSE /\ cursor' = [cursor EXCEPT ![p] = next]
                         /\ IF PauseBeforeNext(page[p], args[p].max_pages)
                              THEN /\ pauses' = [pauses EXCEPT ![p] = Append(@, InterPageDelay)]
                                   /\ pc' = [pc EXCEPT ![p] = "pause"]
                                   /\ UNCHANGED outcome
                              ELSE /\ outcome' = [outcome EXCEPT ![p] = Return(Aggregate(acc))]
                                   /\ pc' = [pc EXCEPT ![p] = "done"]
                                   /\ UNCHANGED pauses
  /\ UNCHANGED <<kind, callVars, args>>

\* the inter-page timer fires: the loop condition, then the next page is
\* requested
PauseDone(p) ==
  /\ pc[p] = "pause"
  /\ IF page[p] < args[p].max_pages
       THEN /\ CallEnter(p, PageCfg(args[p], cursor[p]))
            /\ UNCHANGED outcome
       ELSE /\ outcome' = [outcome EXCEPT ![p] = Return(Aggregate(items[p]))]
            /\ pc' = [pc EXCEPT ![p] = "done"]
            /\ UNCHANGED <<cfg, attempt, delay, requests, result>>
  /\ UNCHANGED <<kind, responses, waits, aggVars>>

Failures(p) == Len(SelectSeq(responses[p], LAMBDA r : ~r.ok))

\* http.request rejects during an aggregation run; the upstream fails at most
\* MaxUpstreamFailures attempts of one run
PageRejected(p, e) ==
  /\ Failures(p) < MaxUpstreamFailures
  /\ HttpReject(p, e, 0)

----------------------------------------------------------------------------
(* Decoded JSON values, as far as fetchNoteById / fetchRecordingById look   *)
(* into them.                                                               *)

JUndefined == [t |-> "undefined"]
JNull == [t |-> "null"]
JString(str) == [t |-> "string", s |-> str]
JObject(fields) == [t |-> "object", f |-> fields]
JArray(elems) == [t |-> "array", e |-> elems]

\* v?.k
Prop(v, k) == IF v.t = "object" /\ k \in DOMAIN v.f THEN v.f[k] ELSE JUndefined

IsNullish(v) == v.t \in {"undefined", "null"}

\* a ?? b on JSON values
OrElse(a, b) == IF IsNullish(a) THEN b ELSE a

\* !v
IsFalsy(v) == IsNullish(v) \/ (v.t = "string" /\ v.s = "")

\* typeof v === 'object' && !Array.isArray(v) && Object.keys(v).length === 0
IsEmptyObject(v) == v.t = "object" /\ DOMAIN v.f = {}

\* payload?.data ?? payload?.note ?? payload
CandidateDataFirst(payload, key) ==
  OrElse(Prop(payload, "data"), OrElse(Prop(payload, key), payload))

\* payload?.note ?? payload?.data ?? payload
Candidate(payload, key) == OrElse(Prop(payload, key), OrElse(Prop(payload, "data"), payload))

\* Array.isArray(candidate) ? candidate[0] : candidate
FirstIfArray(c) ==
  IF c.t = "array" THEN (IF Len(c.e) > 0 THEN c.e[1] ELSE JUndefined) ELSE c

IsMissing(v) == IsFalsy(v) \/ IsEmptyObject(v)

Ids == {"note-1", "missing", "a/b"}

\* encodeURIComponent on the identifiers of the model
EncodeURIComponent(id) == IF id = "a/b" THEN "a%2Fb" ELSE id

\* `/note/${encodeURIComponent(noteId)}`, `/recording/${...}`
PathOf(entity, id) ==
  LET e == EncodeURIComponent(id)
  IN CASE entity = "Note" /\ e = "note-1" -> "/note/note-1"
       [] entity = "Note" /\ e = "missing" -> "/note/missing"
       [] entity = "Note" /\ e = "a%2Fb" -> "/note/a%2Fb"
       [] entity = "Recording" /\ e = "note-1" -> "/recording/note-1"
       [] entity = "Recording" /\ e = "missing" -> "/recording/missing"
       [] entity = "Recording" /\ e = "a%2Fb" -> "/recording/a%2Fb"

\* `Note ${noteId} not found`, `Recording ${recordingId} not found`
NotFoundMessage(entity, id) ==
  CASE entity = "Note" /\ id = "note-1" -> "Note note-1 not found"
    [] entity = "Note" /\ id = "missing" -> "Note missing not found"
    [] entity = "Note" /\ id = "a/b" -> "Note a/b not found"
    [] entity = "Recording" /\ id = "note-1" -> "Recording note-1 not found"
    [] entity = "Recording" /\ id = "missing" -> "Recording missing not found"
    [] entity = "Recording" /\ id = "a/b" -> "Recording a/b not found"

NotFoundError(entity, id) ==
  [status |-> NoStatus, message |-> NotFoundMessage(entity, id), origin |-> "fetchById"]

ZodError == [status |-> NoStatus, message |-> "ZodError", origin |-> "zod"]
MissingIdError == [status |-> NoStatus, message |-> "Missing note id", origin |-> "resource"]

KeyOf(entity) == IF entity = "Note" THEN "note" ELSE "recording"

GetArgs(entity, id) == [entity |-> entity, key |-> KeyOf(entity), id |-> id]

GetCfg(entity, id) == [method |-> "get", url |-> PathOf(entity, id), data |-> None]

\* JSON.stringify(v, null, 2): an injective rendering
Stringify(v) == [t |-> "json", v |-> v]

\* the tool result with the page's cursors left out of structuredContent
ToolResultNoCursor(v) ==
  [text |-> Stringify(v),
   structuredContent |-> Body(v.namedData, None, v.rootData, None)]

\* { content: [{ type: 'text', text: JSON.stringify(v) }], structuredContent: v }
ToolResult(v) == [text |-> Stringify(v), structuredContent |-> v]

\* the resource's text: content_markdown when a non-empty string, else JSON
ResourceText(note) ==
  LET md == Prop(note, "content_markdown")
  IN IF md.t = "string" /\ md.s /= "" THEN md ELSE Stringify(note)

\* fetchNoteById reporting every failure of the call as not found
FetchByIdMasksFailure(p) ==
  IF result[p].type = "throw" THEN Throw(NotFoundError(args[p].entity, args[p].id))
  ELSE LET note == FirstIfArray(Candidate(Get(result[p].body), args[p].key))
       IN IF IsMissing(note)
            THEN Throw(NotFoundError(args[p].entity, args[p].id))
            ELSE Return(note)

\* what fetchNoteById / fetchRecordingById make of a settled call
FetchById(p) ==
  IF result[p].type = "throw" THEN result[p]
  ELSE LET note == FirstIfArray(Candidate(Get(result[p].body), args[p].key))
       IN IF IsMissing(note)
            THEN Throw(NotFoundError(args[p].entity, args[p].id))
            ELSE Return(note)

NoteOne == JObject([id |-> JString("note-1"), title |-> JString("Note One")])
NoteTwo ==
  JObject([id |-> JString("note-2"), content_markdown |-> JString("# Note Two")])

\* Response bodies of the get-by-id endpoints: the entity under the named
\* key, under data, at the root, in arrays, and the ways of being empty.
Payloads ==
  { JObject(<<>>), JNull, JString(""), JArray(<<>>),
    NoteOne, NoteTwo,
    JObject([note |-> NoteOne]), JObject([recording |-> NoteOne]),
    JObject([data |-> NoteTwo]),
    JObject([note |-> NoteOne, data |-> NoteTwo]),
    JObject([recording |-> NoteTwo, data |-> NoteOne]),
    JObject([note |-> JObject(<<>>)]), JObject([recording |-> JObject(<<>>)]),
    JObject([note |-> JArray(<<>>)]), JObject([data |-> JArray(<<>>)]),
    JObject([note |-> JNull]), JObject([recording |-> JNull]),
    JObject([data |-> JNull]),
    JObject([note |-> JArray(<<NoteOne, NoteTwo>>)]),
    JObject([data |-> JArray(<<NoteTwo>>)]),
    JArray(<<NoteOne>>), JArray(<<JObject(<<>>)>>) }

GetTools == {"getNote", "getRecording"}
EntityOf(tool) == IF tool = "getRecording" THEN "Recording" ELSE "Note"

\* getNote / getRecording handler up to its first await; rawId is the
\* note_id / recording_id of the input, if any
InvokeGet(p, tool, rawId) ==
  /\ pc[p] = "idle"
  /\ kind' = [kind EXCEPT ![p] = tool]
  /\ IF IsSome(rawId)
       THEN /\ args' = [args EXCEPT ![p] = GetArgs(EntityOf(tool), Get(rawId))]
            /\ CallEnter(p, GetCfg(EntityOf(tool), Get(rawId)))
            /\ UNCHANGED outcome
       ELSE /\ args' = [args EXCEPT ![p] = [tool |-> tool, raw |-> rawId]]
            /\ outcome' = [outcome EXCEPT ![p] = Throw(ZodError)]
            /\ pc' = [pc EXCEPT ![p] = "done"]
            /\ UNCHANGED <<cfg, attempt, delay, requests, result>>
  /\ UNCHANGED <<responses, waits, cursor, items, page, pauses>>

\* the fellow-note resource handler up to its first await
InvokeResource(p, id) ==
  /\ pc[p] = "idle"
  /\ kind' = [kind EXCEPT ![p] = "noteResource"]
  /\ IF id /= ""
       THEN /\ args' = [args EXCEPT ![p] = GetArgs("Note", id)]
            /\ CallEnter(p, GetCfg("Note", id))
            /\ UNCHANGED outcome
       ELSE /\ outcome' = [outcome EXCEPT ![p] = Throw(MissingIdError)]
            /\ pc' = [pc EXCEPT ![p] = "done"]
            /\ UNCHANGED <<args, cfg, attempt, delay, requests, result>>
  /\ UNCHANGED <<responses, waits, cursor, items, page, pauses>>

\* the call of fetchNoteById / fetchRecordingById settles: the rest of the
\* getNote / getRecording handler
GetSettled(p) ==
  /\ pc[p] = "ret"
  /\ kind[p] \in GetTools
  /\ LET r == FetchById(p)
     IN outcome' = [outcome EXCEPT ![p] =
                      IF r.type = "throw" THEN r ELSE Return(ToolResult(Get(r.body)))]
  /\ pc' = [pc EXCEPT ![p] = "done"]
  /\ UNCHANGED <<kind, callVars, aggVars>>

\* the same for the fellow-note resource
ResourceSettled(p) ==
  /\ pc[p] = "ret"
  /\ kind[p] = "noteResource"
  /\ LET r == FetchById(p)
     IN outcome' = [outcome EXCEPT ![p] =
                      IF r.type = "throw" THEN r
                      ELSE Return([uri |-> args[p].id, text |-> ResourceText(Get(r.body))])]
  /\ pc' = [pc EXCEPT ![p] = "done"]
  /\ UNCHANGED <<kind, callVars, aggVars>>

----------------------------------------------------------------------------
(* The listNotes / listRecordings tools: one validated POST per invocation  *)

ListTools == {"listNotes", "listRecordings"}

ListUrl(tool) == IF tool = "listNotes" THEN "/notes" ELSE "/recordings"

\* the flags the include schema of the tool declares
IncludeFlags(tool) ==
  IF tool = "listNotes" THEN {"content_markdown", "event_attendees"} ELSE {"transcript"}

DefaultPageSize == 20

\* a JSON number whole + tenths / 10
Num(whole, tenths) == [whole |-> whole, tenths |-> tenths]

\* z.number().int().min(1)
ValidPageSizeNoMax(n) == n.tenths = 0 /\ n.whole >= 1

\* z.number().int().min(1).max(50)
ValidPageSize(n) == n.tenths = 0 /\ n.whole >= 1 /\ n.whole <= 50

\* paginationInput
ValidPagination(pg) == IsSome(pg.page_size) => ValidPageSize(Get(pg.page_size))

\* a schema that admits every input
ValidListInputAlways(tool, raw) == TRUE

\* listNotesInputSchema / listRecordingsInputSchema accept raw
ValidListInput(tool, raw) ==
  /\ ~raw.unknown
  /\ IsSome(raw.include) => DOMAIN Get(raw.include) \subseteq IncludeFlags(tool)
  /\ IsSome(raw.pagination) => ValidPagination(Get(raw.pagination))

\* the parsed input: page_size defaulted
ParseListInput(raw) ==
  [filters |-> raw.filters,
   include |-> raw.include,
   pagination |->
     IF IsSome(raw.pagination)
       THEN LET pg == Get(raw.pagination)
            IN Some([cursor |-> pg.cursor,
                     page_size |-> IF IsSome(pg.page_size)
                                     THEN Get(pg.page_size).whole
                                     ELSE DefaultPageSize])
       ELSE None]

\* every flag of inc copied as true
TrueFlagsAll(inc) == [k \in DOMAIN inc |-> TRUE]

\* the flags of inc that are true, each mapped to true
TrueFlags(inc) == [k \in {f \in DOMAIN inc : inc[f]} |-> TRUE]

\* body.pagination
BodyPagination(input) ==
  IF IsSome(input.pagination)
    THEN LET pg == Get(input.pagination)
         IN Some([cursor |-> OrElse(pg.cursor, JUndefined), page_size |-> pg.page_size])
    ELSE None

buildNotesBody(input) ==
  [filters |-> input.filters,
   include |->
     IF IsSome(input.include) /\ DOMAIN TrueFlags(Get(input.include)) /= {}
       THEN Some(TrueFlags(Get(input.include)))
       ELSE None,
   pagination |-> BodyPagination(input)]

buildRecordingsBody(input) ==
  [filters |-> input.filters,
   include |->
     IF /\ IsSome(input.include)
        /\ "transcript" \in DOMAIN Get(input.include)
        /\ Get(input.include)["transcript"]
       THEN Some([transcript |-> TRUE])
       ELSE None,
   pagination |-> BodyPagination(input)]

buildBody(tool, input) ==
  IF tool = "listNotes" THEN buildNotesBody(input) ELSE buildRecordingsBody(input)

ListToolArgs(tool, raw) == [tool |-> tool, raw |-> raw]

RawInput(f, i, pg, u) == [filters |-> f, include |-> i, pagination |-> pg, unknown |-> u]

RawPagination(cur, ps) == [cursor |-> cur, page_size |-> ps]

RawFilters == {None, Some([event_guid |-> "evt-123"])}

RawIncludes ==
  { None, Some(<<>>),
    Some([content_markdown |-> TRUE, event_attendees |-> TRUE]),
    Some([content_markdown |-> FALSE]),
    Some([content_markdown |-> FALSE, event_attendees |-> TRUE]),
    Some([transcript |-> TRUE]), Some([transcript |-> FALSE]) }

RawPageSizes ==
  { None, Some(Num(0, 0)), Some(Num(1, 0)), Some(Num(25, 0)), Some(Num(50, 0)),
    Some(Num(51, 0)), Some(Num(2, 5)) }

RawPaginations ==
  {None} \cup { Some(RawPagination(cur, ps)) :
                  cur \in {JUndefined, JNull, JString("cursor-1")}, ps \in RawPageSizes }

RawInputs ==
  { RawInput(f, i, pg, u) :
      f \in RawFilters, i \in RawIncludes, pg \in RawPaginations, u \in BOOLEAN }

\* the listNotes / listRecordings handler up to its first await
InvokeListTool(p, tool, raw) ==
  /\ pc[p] = "idle"
  /\ kind' = [kind EXCEPT ![p] = tool]
  /\ args' = [args EXCEPT ![p] = ListToolArgs(tool, raw)]
  /\ IF ValidListInput(tool, raw)
       THEN /\ CallEnter(p, [method |-> "post", url |-> ListUrl(tool),
                             data |-> Some(buildBody(tool, ParseListInput(raw)))])
            /\ UNCHANGED outcome
       ELSE /\ outcome' = [outcome EXCEPT ![p] = Throw(ZodError)]
            /\ pc' = [pc EXCEPT ![p] = "done"]
            /\ UNCHANGED <<cfg, attempt, delay, requests, result>>
  /\ UNCHANGED <<responses, waits, cursor, items, page, pauses>>

\* the await on call(...) settles: the handler returns the page
ListToolSettled(p) ==
  /\ pc[p] = "ret"
  /\ kind[p] \in ListTools
  /\ outcome' = [outcome EXCEPT ![p] =
                   IF result[p].type = "throw" THEN result[p]
                   ELSE Return(ToolResult(Get(result[p].body)))]
  /\ pc' = [pc EXCEPT ![p] = "done"]
  /\ UNCHANGED <<kind, callVars, aggVars>>

\* the getMe handler up to its first await; unknown tells whether the input
\* carries a property, which the empty strict schema does not admit
InvokeGetMe(p, unknown) ==
  /\ pc[p] = "idle"
  /\ kind' = [kind EXCEPT ![p] = "getMe"]
  /\ args' = [args EXCEPT ![p] = [tool |-> "getMe", raw |-> [unknown |-> unknown]]]
  /\ IF ~unknown
       THEN /\ CallEnter(p, [method |-> "get", url |-> "/me", data |-> None])
            /\ UNCHANGED outcome
       ELSE /\ outcome' = [outcome EXCEPT ![p] = Throw(ZodError)]
            /\ pc' = [pc EXCEPT ![p] = "done"]
            /\ UNCHANGED <<cfg, attempt, delay, requests, result>>
  /\ UNCHANGED <<responses, waits, cursor, items, page, pauses>>

\* the rest of the getMe handler
GetMeSettled(p) ==
  /\ pc[p] = "ret"
  /\ kind[p] = "getMe"
  /\ outcome' = [outcome EXCEPT ![p] =
                   IF result[p].type = "throw" THEN result[p]
                   ELSE Return(ToolResult(Get(result[p].body)))]
  /\ pc' = [pc EXCEPT ![p] = "done"]
  /\ UNCHANGED <<kind, callVars, aggVars>>

\* POST /notes or /recordings answers with a page
ListEndpointResolves(p, b) ==
  /\ kind[p] \in ListTools
  /\ HttpResolve(p, b)

\* GET /me, /note/{id} or /recording/{id} answers with a JSON value
GetEndpointResolves(p, b) ==
  /\ kind[p] \in GetTools \cup {"getMe"}
  /\ HttpResolve(p, b)

----------------------------------------------------------------------------

NoArgs == [url |-> "", include |-> None, filters |-> None, page_size |-> 0, max_pages |-> 0]

Init ==
  /\ kind = [p \in Procs |-> "none"]
  /\ pc = [p \in Procs |-> "idle"]
  /\ cfg = [p \in Procs |-> [method |-> "get", url |-> "", data |-> None]]
  /\ attempt = [p \in Procs |-> 0]
  /\ delay = [p \in Procs |-> 0]
  /\ requests = [p \in Procs |-> <<>>]
  /\ responses = [p \in Procs |-> <<>>]
  /\ waits = [p \in Procs |-> <<>>]
  /\ result = [p \in Procs |-> Pending]
  /\ args = [p \in Procs |-> NoArgs]
  /\ cursor = [p \in Procs |-> None]
  /\ items = [p \in Procs |-> <<>>]
  /\ page = [p \in Procs |-> 0]
  /\ pauses = [p \in Procs |-> <<>>]
  /\ outcome = [p \in Procs |-> Pending]

\* One invocation of call against an upstream that may answer anything.
Next ==
  \/ \E c \in Cfgs : InvokeCall(Main, c)
  \/ \E b \in PlainBodies : HttpResolve(Main, b)
  \/ \E e \in TransportErrors, j \in Jitters : HttpReject(Main, e, j)
  \/ BackoffDone(Main)
  \/ CallSettled(Main)

Spec == Init /\ [][Next]_vars

\* the request in flight settles, one way or the other
Settles ==
  \/ \E b \in PlainBodies : HttpResolve(Main, b)
  \/ \E e \in TransportErrors, j \in Jitters : HttpReject(Main, e, j)

\* The same invocation when every request settles, every backoff timer
\* fires and every settled promise is delivered to its awaiter.
SpecLive ==
  /\ Init /\ [][Next]_vars
  /\ WF_vars(Settles)
  /\ WF_vars(BackoffDone(Main))
  /\ WF_vars(CallSettled(Main))

\* One aggregation run against an upstream that answers with pages and may
\* fail a bounded number of attempts.
NextAgg ==
  \/ \E a \in ListInputs : InvokeList(Main, a)
  \/ \E b \in Pages : HttpResolve(Main, b)
  \/ \E e \in PageErrors : PageRejected(Main, e)
  \/ BackoffDone(Main)
  \/ PageSettled(Main)
  \/ PauseDone(Main)

SpecAgg == Init /\ [][NextAgg]_vars

\* Pages that carry both envelope shapes at once with different contents,
\* one shape only, or neither.
EnvelopePages ==
  { Body(Some(<<"n1">>), Some("cursor-1"), Some(<<"r1">>), Some("cursor-2")),
    Body(Some(<<"n1", "n2">>), Some("cursor-1"), Some(<<"r1">>), None),
    Body(Some(<<"n2">>), None, Some(<<"r1", "n2">>), None),
    NestedPage(<<"n1">>, Some("cursor-2")),
    FlatPage(<<"r1">>, Some("cursor-1")),
    Body(None, None, None, None) }

\* One aggregation run against an upstream that answers every request with
\* one of these pages.
NextEnvelope ==
  \/ \E a \in ListInputs : InvokeList(Main, a)
  \/ \E b \in EnvelopePages : HttpResolve(Main, b)
  \/ PageSettled(Main)
  \/ PauseDone(Main)

SpecEnvelope == Init /\ [][NextEnvelope]_vars

\* One get-by-id invocation (tool or resource) against an upstream that
\* answers with any payload and may fail a bounded number of attempts.
NextGet ==
  \/ \E tool \in GetTools, rawId \in {None} \cup {Some(id) : id \in Ids} :
       InvokeGet(Main, tool, rawId)
  \/ \E id \in Ids \cup {""} : InvokeResource(Main, id)
  \/ \E b \in Payloads : HttpResolve(Main, b)
  \/ \E e \in PageErrors : PageRejected(Main, e)
  \/ BackoffDone(Main)
  \/ GetSettled(Main)
  \/ ResourceSettled(Main)

SpecGet == Init /\ [][NextGet]_vars

\* One listNotes / listRecordings invocation with any raw input against an
\* upstream that answers with pages and may fail a bounded number of attempts.
NextTools ==
  \/ \E tool \in ListTools, raw \in RawInputs : InvokeListTool(Main, tool, raw)
  \/ \E b \in Pages : HttpResolve(Main, b)
  \/ \E e \in PageErrors : PageRejected(Main, e)
  \/ BackoffDone(Main)
  \/ ListToolSettled(Main)

SpecTools == Init /\ [][NextTools]_vars

\* One invocation of any of the five tools with any raw input.
NextHandlers ==
  \/ \E unknown \in BOOLEAN : InvokeGetMe(Main, unknown)
  \/ \E tool \in ListTools, raw \in RawInputs : InvokeListTool(Main, tool, raw)
  \/ \E tool \in GetTools, rawId \in {None} \cup {Some(id) : id \in Ids} :
       InvokeGet(Main, tool, rawId)
  \/ \E b \in Pages : ListEndpointResolves(Main, b)
  \/ \E b \in Payloads : GetEndpointResolves(Main, b)
  \/ \E e \in PageErrors : PageRejected(Main, e)
  \/ BackoffDone(Main)
  \/ GetMeSettled(Main)
  \/ ListToolSettled(Main)
  \/ GetSettled(Main)

SpecHandlers == Init /\ [][NextHandlers]_vars

----------------------------------------------------------------------------
(* Two aggregation runs side by side against upstreams that carry the same  *)
(* items and cursors: Main's upstream nests them under the named key, the   *)
(* twin's upstream puts them at the response root.                          *)

Twin == "b"

NestedPages ==
  { NestedPage(its, cur) :
      its \in {<<"n1">>, <<"n1", "n2">>},
      cur \in {None, Some("cursor-1"), Some("cursor-2")} }

\* the same page in the flat shape
FlatTwin(b) == FlatPage(Get(b.namedData), b.namedCursor)

\* the twin is invoked with Main's input
TwinInvokeList ==
  /\ kind[Main] = "list"
  /\ InvokeList(Twin, args[Main])

\* the twin's upstream answers its k-th request with the flat shape of the
\* page Main's upstream answered its k-th request with
TwinResolveFlat ==
  /\ Len(responses[Twin]) < Len(responses[Main])
  /\ HttpResolve(Twin, FlatTwin(Get(responses[Main][Len(responses[Twin]) + 1].data)))

NextShapes ==
  \/ \E a \in ListInputs : InvokeList(Main, a)
  \/ \E b \in NestedPages : HttpResolve(Main, b)
  \/ TwinInvokeList
  \/ TwinResolveFlat
  \/ \E p \in {Main, Twin} : PageSettled(p)
  \/ \E p \in {Main, Twin} : PauseDone(p)

SpecShapes == Init /\ [][NextShapes]_vars

----------------------------------------------------------------------------
(* Properties of one invocation of call (specification Spec)                *)

Reqs == requests[Main]
Resp == responses[Main]
Waits == waits[Main]
Finished == pc[Main] = "done"

\* the classification as the design states it: 429, or 500..599
StatedRetryable(e) == e.status = 429 \/ e.status \in 500..599

FailedAt(i) == i \in 1..Len(Resp) /\ ~Resp[i].ok
ErrAt(i) == Get(Resp[i].err)
RetryableAt(i) == FailedAt(i) /\ StatedRetryable(ErrAt(i))
TerminalAt(i) == FailedAt(i) /\ ~StatedRetryable(ErrAt(i))

AllAttemptsRetryable == Len(Resp) >= 1 /\ \A i \in 1..Len(Resp) : RetryableAt(i)

\* C1: an invocation whose every attempt fails with 429 or 5xx issues exactly
\* 4 requests and then fails with the error 'Upstream unavailable after
\* retries', which is none of the errors the transport produced.
C1_ExhaustionAfterFourRequests ==
  (Finished /\ AllAttemptsRetryable) =>
    /\ Len(Reqs) = 4
    /\ outcome[Main].type = "throw"
    /\ Get(outcome[Main].err).message = "Upstream unavailable after retries"
    /\ \A i \in 1..Len(Resp) : Get(outcome[Main].err) /= ErrAt(i)

C1_Witness ==
  /\ Finished /\ AllAttemptsRetryable
  /\ Len(Resp) = 4
  /\ ErrAt(1).status = 429 /\ ErrAt(4).status = 599

\* C2: an invocation whose first attempt fails with a failure that is not
\* 429 or 5xx issues exactly 1 request and raises that very error.
C2_TerminalFirstAttempt ==
  (Finished /\ TerminalAt(1)) =>
    /\ Len(Reqs) = 1
    /\ outcome[Main] = Throw(ErrAt(1))

C2_Witness ==
  /\ Finished /\ TerminalAt(1)
  /\ ErrAt(1).status = 404
  /\ outcome[Main].type = "throw"

\* C3: a failed attempt is followed by a backoff and (within the budget of
\* 4 attempts) another request exactly when its status is 429 or 5xx; any
\* other failure, a failure without status included, ends the invocation
\* with no further request.
C3_RetriedIffRetryable ==
  \A i \in 1..Len(Resp) :
    FailedAt(i) =>
      /\ TerminalAt(i) =>
           /\ Len(Reqs) = i /\ Len(Resp) = i
           /\ Len(Waits) = i - 1
           /\ pc[Main] \in {"ret", "done"}
           /\ result[Main] = Throw(ErrAt(i))
      /\ RetryableAt(i) =>
           /\ Len(Waits) >= i
           /\ i < 4 => \/ pc[Main] = "backoff" /\ Len(Reqs) = i
                       \/ Len(Reqs) > i

C3_Witness ==
  /\ Finished
  /\ Len(Reqs) = 3
  /\ RetryableAt(1) /\ ErrAt(1).status = 429
  /\ RetryableAt(2) /\ ErrAt(2).status = 500
  /\ TerminalAt(3) /\ ErrAt(3).status = NoStatus

\* C4: an invocation whose first attempt succeeds issues exactly one request,
\* carrying the caller's method, url and data, and returns that response's
\* body unchanged.
C4_SuccessFirstAttempt ==
  (Finished /\ Len(Resp) >= 1 /\ Resp[1].ok) =>
    /\ Len(Reqs) = 1 /\ Len(Resp) = 1
    /\ Reqs[1] = [method |-> cfg[Main].method, url |-> cfg[Main].url, data |-> cfg[Main].data]
    /\ outcome[Main] = Return(Get(Resp[1].data))
    /\ Waits = <<>>

C4_Witness ==
  /\ Finished /\ Len(Resp) = 1 /\ Resp[1].ok
  /\ cfg[Main].method = "post" /\ IsSome(cfg[Main].data)
  /\ IsSome(Get(Resp[1].data).rootData)

\* C5: first attempt fails with 429 or 5xx, second succeeds: the result is
\* the second response's body, exactly 2 requests are issued, and the wait
\* between them lies in [300, 500).
C5_RetryThenSuccess ==
  (Finished /\ RetryableAt(1) /\ Len(Resp) >= 2 /\ Resp[2].ok) =>
    /\ outcome[Main] = Return(Get(Resp[2].data))
    /\ Len(Reqs) = 2 /\ Len(Resp) = 2
    /\ Len(Waits) = 1
    /\ Waits[1] >= 300 /\ Waits[1] < 500

C5_Witness ==
  /\ Finished /\ RetryableAt(1) /\ Len(Resp) = 2 /\ Resp[2].ok
  /\ Waits = <<499>>

\* C6: the base delay is 300 before the first retry and doubles after every
\* retryable failure; the k-th backoff wait (k = 1, 2, 3) lies in
\* [300 * 2^(k-1), 300 * 2^(k-1) + 200).
C6_BackoffWindows ==
  /\ \A k \in 1..Len(Waits) :
       k <= 3 => /\ Waits[k] >= 300 * 2^(k-1)
                 /\ Waits[k] < 300 * 2^(k-1) + 200
  /\ pc[Main] \in {"await", "backoff"} => delay[Main] = 300 * 2^(attempt[Main] - 1)

C6_Witness ==
  /\ Len(Waits) >= 3
  /\ Waits[1] = 300 /\ Waits[2] = 799 /\ Waits[3] = 1399

\* C7: the number of backoff waits of an invocation equals the number of its
\* requests minus one: at most 3 waits, and none after the final failed
\* attempt.
C7_WaitsOnlyBetweenAttempts ==
  Finished => /\ Len(Waits) = Len(Reqs) - 1
              /\ Len(Waits) <= 3

----------------------------------------------------------------------------
(* Properties of one aggregation run (specification SpecAgg)                *)

AllOk == \A i \in 1..Len(Resp) : Resp[i].ok

\* what the upstream put in the page answered to request i, read in either
\* envelope shape
PageOf(i) == Get(Resp[i].data)
ItemsOf(i) ==
  IF IsSome(PageOf(i).namedData) THEN Get(PageOf(i).namedData)
  ELSE IF IsSome(PageOf(i).rootData) THEN Get(PageOf(i).rootData)
  ELSE <<>>
CursorOf(i) ==
  IF IsSome(PageOf(i).namedCursor) THEN PageOf(i).namedCursor ELSE PageOf(i).rootCursor
HasNext(i) == IsSome(CursorOf(i))

RECURSIVE ItemsUpTo(_)
ItemsUpTo(k) == IF k = 0 THEN <<>> ELSE ItemsUpTo(k - 1) \o ItemsOf(k)

RECURSIVE LastOkBefore(_)
LastOkBefore(i) ==
  IF i <= 1 THEN 0
  ELSE IF Resp[i - 1].ok THEN i - 1 ELSE LastOkBefore(i - 1)

OkCount == Len(SelectSeq(Resp, LAMBDA r : r.ok))

\* C11: when a page fetch ends in a terminal error or in retry exhaustion,
\* the list operation fails with that error, returns no aggregate (whatever
\* was collected before) and fetches no further page.
C11_FailureAbortsAggregation ==
  /\ \A i \in 1..Len(Resp) :
       TerminalAt(i) =>
         /\ Len(Reqs) = i /\ Len(Resp) = i
         /\ pc[Main] \in {"ret", "done"}
         /\ Finished => outcome[Main] = Throw(ErrAt(i))
  /\ \A i \in 1..(Len(Resp) - 3) :
       ((i = 1 \/ Resp[i - 1].ok) /\ \A j \in i..(i + 3) : RetryableAt(j)) =>
         /\ Len(Reqs) = i + 3 /\ Len(Resp) = i + 3
         /\ pc[Main] \in {"backoff", "ret", "done"}
         /\ Finished =>
              /\ outcome[Main].type = "throw"
              /\ outcome[Main].body = None
              /\ Get(outcome[Main].err).message = "Upstream unavailable after retries"

C11_Witness ==
  /\ Finished
  /\ Len(Resp) = 2 /\ Resp[1].ok /\ TerminalAt(2)
  /\ items[Main] /= <<>>
  /\ outcome[Main] = Throw(ErrAt(2))

C16_SequentialFetches ==
  /\ Len(Reqs) = Len(Resp) + (IF pc[Main] = "await" THEN 1 ELSE 0)
  /\ pc[Main] = "pause" => Len(Reqs) = Len(Resp) /\ Resp[Len(Resp)].ok

C16_Witness ==
  /\ pc[Main] = "await"
  /\ Len(Reqs) = 3 /\ Len(Resp) = 2
  /\ AllOk

\* pages whose fetch was started: those received, and the one that failed
PageFetches == OkCount + (IF outcome[Main].type = "throw" THEN 1 ELSE 0)

\* C17: the pause of 350 happens only after a page that returned a cursor
\* and only when another iteration remains under max_pages; none follows the
\* last fetched page, so a run has one pause less than page fetches.
C17_PauseOnlyBetweenPages ==
  /\ \A k \in 1..Len(pauses[Main]) : pauses[Main][k] = 350
  /\ pc[Main] = "pause" =>
       /\ Resp[Len(Resp)].ok /\ HasNext(Len(Resp))
       /\ OkCount < args[Main].max_pages
       /\ Len(pauses[Main]) = OkCount
  /\ (Finished /\ kind[Main] = "list") => Len(pauses[Main]) = PageFetches - 1

C17_Witness ==
  /\ Finished /\ AllOk
  /\ args[Main].max_pages = 2
  /\ Len(Resp) = 2 /\ HasNext(2)
  /\ pauses[Main] = <<350>>

----------------------------------------------------------------------------
(* Properties of two runs side by side                                      *)

BothFinished == pc[Main] = "done" /\ pc[Twin] = "done"

----------------------------------------------------------------------------
(* Two invocations interleaved on the one event loop of the server process: *)
(* each of them a direct call or an aggregation run, each followed by any   *)
(* number of further invocations.                                           *)

\* the handler of p has returned: its frame is gone, the next invocation of
\* p starts with empty logs; nothing re-initialises the dead locals
Release(p) ==
  /\ pc[p] = "done"
  /\ pc' = [pc EXCEPT ![p] = "idle"]
  /\ requests' = [requests EXCEPT ![p] = <<>>]
  /\ responses' = [responses EXCEPT ![p] = <<>>]
  /\ waits' = [waits EXCEPT ![p] = <<>>]
  /\ pauses' = [pauses EXCEPT ![p] = <<>>]
  /\ result' = [result EXCEPT ![p] = Pending]
  /\ outcome' = [outcome EXCEPT ![p] = Pending]
  /\ UNCHANGED <<kind, cfg, attempt, delay, args, cursor, items, page>>

ConcCfgs == {[method |-> "get", url |-> "/me", data |-> None]}
ConcInputs == {NotesInput(1, 2)}
ConcPages == {NestedPage(<<"n1">>, Some("cursor-1")), NestedPage(<<"n2">>, None)}

NextConc ==
  \/ \E p \in Procs, c \in ConcCfgs : InvokeCall(p, c)
  \/ \E p \in Procs, a \in ConcInputs : InvokeList(p, a)
  \/ \E p \in Procs, b \in ConcPages : HttpResolve(p, b)
  \/ \E p \in Procs, e \in PageErrors : PageRejected(p, e)
  \/ \E p \in Procs : BackoffDone(p)
  \/ \E p \in Procs : CallSettled(p)
  \/ \E p \in Procs : PageSettled(p)
  \/ \E p \in Procs : PauseDone(p)
  \/ \E p \in Procs : Release(p)

SpecConc == Init /\ [][NextConc]_vars

\* http.request rejects with any draw of Math.random; the upstream fails at
\* most MaxUpstreamFailures attempts of one invocation
RejectedWithJitter(p, e, j) ==
  /\ Failures(p) < MaxUpstreamFailures
  /\ HttpReject(p, e, j)

\* the twin is invoked with the input Main was invoked with
TwinInvoke ==
  /\ pc[Main] /= "idle"
  /\ IF kind[Main] = "list"
       THEN InvokeList(Twin, args[Main])
       ELSE InvokeCall(Twin, cfg[Main])

\* the twin's upstream answers its k-th request as Main's upstream answered
\* Main's k-th request; the twin draws its own jitter
TwinResolve ==
  LET k == Len(responses[Twin]) + 1
  IN /\ k <= Len(responses[Main])
     /\ responses[Main][k].ok
     /\ HttpResolve(Twin, Get(responses[Main][k].data))

TwinReject(j) ==
  LET k == Len(responses[Twin]) + 1
  IN /\ k <= Len(responses[Main])
     /\ ~responses[Main][k].ok
     /\ HttpReject(Twin, Get(responses[Main][k].err), j)

\* Main's handler has returned while no twin is running
ReleaseMain ==
  /\ pc[Twin] = "idle"
  /\ Release(Main)

\* Two runs, concurrent or one after the other, each possibly after earlier
\* invocations, with the same input and the same upstream responses and
\* with independent draws of the jitter.
NextTwin ==
  \/ \E c \in ConcCfgs : InvokeCall(Main, c)
  \/ \E a \in ConcInputs : InvokeList(Main, a)
  \/ \E b \in ConcPages : HttpResolve(Main, b)
  \/ \E e \in PageErrors, j \in Jitters : RejectedWithJitter(Main, e, j)
  \/ TwinInvoke
  \/ TwinResolve
  \/ \E j \in Jitters : TwinReject(j)
  \/ \E p \in Procs : BackoffDone(p)
  \/ \E p \in Procs : CallSettled(p)
  \/ \E p \in Procs : PageSettled(p)
  \/ \E p \in Procs : PauseDone(p)
  \/ Release(Twin)
  \/ ReleaseMain

SpecTwin == Init /\ [][NextTwin]_vars

\* Failures of different statuses and messages
MixedErrors ==
  { TransportError(429, "rate limited"), TransportError(500, "boom"),
    TransportError(503, "unavailable"), TransportError(404, "boom") }

\* Two direct invocations of call against upstreams that fail differently.
NextMixed ==
  \/ \E p \in Procs, c \in ConcCfgs : InvokeCall(p, c)
  \/ \E p \in Procs, b \in PlainBodies : HttpResolve(p, b)
  \/ \E p \in Procs, e \in MixedErrors, j \in {0} : HttpReject(p, e, j)
  \/ \E p \in Procs : BackoffDone(p)
  \/ \E p \in Procs : CallSettled(p)

SpecMixed == Init /\ [][NextMixed]_vars

----------------------------------------------------------------------------
(* Properties of one get-by-id invocation (specification SpecGet)           *)

IsGet == kind[Main] \in {"getNote", "getRecording", "noteResource"}

\* the body of the successful response of a finished invocation
Payload == Get(Resp[Len(Resp)].data)
FetchSucceeded == IsGet /\ Finished /\ Len(Resp) >= 1 /\ Resp[Len(Resp)].ok

\* the place of the response that holds the entity: the named key when the
\* response has it, else data when the response has it, else the root
StatedEntity ==
  IF Payload.t = "object" /\ args[Main].key \in DOMAIN Payload.f
    THEN Payload.f[args[Main].key]
  ELSE IF Payload.t = "object" /\ "data" \in DOMAIN Payload.f
    THEN Payload.f["data"]
  ELSE Payload

\* missing, null, empty object or empty array
StatedNoEntity ==
  \/ StatedEntity.t \in {"undefined", "null"}
  \/ StatedEntity.t = "object" /\ DOMAIN StatedEntity.f = {}
  \/ StatedEntity.t = "array" /\ StatedEntity.e = <<>>

\* C14: a get-by-id operation whose fetch succeeds with a response that
\* holds no entity payload (missing, null, empty object, empty array) fails
\* with the not-found error naming the requested identifier.
C14_NotFoundOnEmptyPayload ==
  (FetchSucceeded /\ StatedNoEntity) =>
    /\ outcome[Main].type = "throw"
    /\ Get(outcome[Main].err).message = NotFoundMessage(args[Main].entity, args[Main].id)

----------------------------------------------------------------------------
(* Properties of interleaved invocations (specification SpecConc)           *)

\* the number of failed responses at the end of p's log: the failures of the
\* call p is in, or has just left
RECURSIVE FailedRun(_, _)
FailedRun(p, n) ==
  IF n = 0 \/ responses[p][n].ok THEN 0 ELSE 1 + FailedRun(p, n - 1)

TrailingFailures(p) == FailedRun(p, Len(responses[p]))

RECURSIVE Doubled(_)
Doubled(k) == IF k <= 1 THEN 300 ELSE 2 * Doubled(k - 1)

\* the items of p's own successful pages, in order
RECURSIVE OwnItems(_, _)
OwnItems(p, n) ==
  IF n = 0 THEN <<>>
  ELSE IF responses[p][n].ok
    THEN OwnItems(p, n - 1) \o Get(Get(responses[p][n].data).namedData)
    ELSE OwnItems(p, n - 1)

\* the retry state and accumulator of p are a function of p's own history
OwnState(p) ==
  /\ pc[p] = "await" =>
       /\ Len(requests[p]) = Len(responses[p]) + 1
       /\ attempt[p] = TrailingFailures(p) + 1
       /\ attempt[p] <= 4
       /\ delay[p] = Doubled(attempt[p])
  /\ pc[p] = "backoff" =>
       /\ attempt[p] = TrailingFailures(p)
       /\ delay[p] = Doubled(attempt[p])
       /\ waits[p][Len(waits[p])] \in delay[p]..(delay[p] + 199)
  /\ (pc[p] = "await" /\ Len(requests[p]) = 1) =>
       (attempt[p] = 1 /\ delay[p] = 300)
  /\ (pc[p] \in {"ret", "done"} /\ result[p] = Throw(ExhaustedError)) =>
       /\ TrailingFailures(p) = 4
       /\ \A i \in (Len(responses[p]) - 3)..Len(responses[p]) :
            StatedRetryable(Get(responses[p][i].err))
  /\ (kind[p] = "list" /\ pc[p] \in {"await", "backoff", "ret", "pause"}
        /\ Len(requests[p]) >= 1) =>
       items[p] = OwnItems(p, IF pc[p] = "ret" /\ result[p].type = "return"
                                THEN Len(responses[p]) - 1 ELSE Len(responses[p]))
  /\ (kind[p] = "list" /\ pc[p] = "done" /\ outcome[p].type = "return") =>
       Get(outcome[p].body).items = OwnItems(p, Len(responses[p]))

\* C15: two invocations running concurrently each have their own retry state
\* and accumulator: the failures of one neither shorten the other's budget of
\* 4 attempts nor change its backoff delays, and every invocation starts at
\* attempt 1 with delay 300.
C15_IsolatedRetryState == \A p \in Procs : OwnState(p)

\* Main has used up its four attempts while the twin, started meanwhile, is
\* backing off after its second failure with items of its own collected
C15_Witness ==
  /\ pc[Main] = "ret" /\ result[Main] = Throw(ExhaustedError)
  /\ kind[Twin] = "list" /\ pc[Twin] = "backoff" /\ attempt[Twin] = 2
  /\ items[Twin] = <<"n1">> /\ items[Main] = <<>>

----------------------------------------------------------------------------
(* Properties of two runs with equal inputs and responses (SpecTwin)        *)

SameInput ==
  /\ kind[Main] = kind[Twin]
  /\ requests[Main] /= <<>> /\ requests[Twin] /= <<>>
  /\ requests[Main][1] = requests[Twin][1]
  /\ kind[Main] = "list" => args[Main] = args[Twin]

IsPrefix(s, t) == Len(s) <= Len(t) /\ SubSeq(t, 1, Len(s)) = s

\* both runs were answered from the same sequence of responses
SameResponses ==
  IsPrefix(responses[Main], responses[Twin]) \/ IsPrefix(responses[Twin], responses[Main])

\* C18: two runs given the same input and the same sequence of upstream
\* responses issue the same sequence of requests and end in the same outcome,
\* whatever jitter each draws and whatever ran before them.
C18_Deterministic ==
  (BothFinished /\ SameInput /\ SameResponses) =>
    /\ requests[Main] = requests[Twin]
    /\ outcome[Main] = outcome[Twin]

\* two finished aggregation runs over the same two pages, the second page
\* obtained after two retries, whose draws of the jitter differed
C18_Witness ==
  /\ BothFinished /\ SameInput /\ SameResponses
  /\ kind[Main] = "list"
  /\ Len(responses[Main]) = 4
  /\ outcome[Main].type = "return"
  /\ Len(waits[Main]) = 2
  /\ waits[Main][1] /= waits[Twin][1]
  /\ waits[Main][2] = waits[Twin][2]

----------------------------------------------------------------------------
(* Properties of two invocations that fail differently (SpecMixed)          *)

\* p has finished after 4 attempts that all failed with 429 or 5xx
Exhausted(p) ==
  /\ pc[p] = "done"
  /\ Len(responses[p]) = 4
  /\ \A i \in 1..4 :
       ~responses[p][i].ok /\ StatedRetryable(Get(responses[p][i].err))

\* C19: after retry exhaustion the error raised is the same whatever the
\* statuses and messages of the 4 retryable failures were.
C19_ExhaustionIndistinguishable ==
  (Exhausted(Main) /\ Exhausted(Twin)) =>
    /\ outcome[Main].type = "throw"
    /\ outcome[Main] = outcome[Twin]

\* both exhausted, Main on four 429s, the twin on 5xx failures of two kinds
C19_Witness ==
  /\ Exhausted(Main) /\ Exhausted(Twin)
  /\ \A i \in 1..4 : Get(responses[Main][i].err).status = 429
  /\ \A i \in 1..4 : Get(responses[Twin][i].err).status >= 500
  /\ Get(responses[Twin][1].err).message /= Get(responses[Twin][4].err).message
  /\ Get(responses[Twin][4].err).message /= Get(responses[Main][4].err).message

----------------------------------------------------------------------------
(* Properties of one listNotes / listRecordings invocation (SpecTools)      *)

IsListTool == kind[Main] \in {"listNotes", "listRecordings"}

Raw == args[Main].raw

\* input the tool's schema admits: no unknown property, only the tool's own
\* include flags, page_size an integer in 1..50 when given
StatedValidInput ==
  /\ ~Raw.unknown
  /\ Raw.include /= None =>
       DOMAIN Get(Raw.include) \subseteq
         (IF kind[Main] = "listNotes"
            THEN {"content_markdown", "event_attendees"} ELSE {"transcript"})
  /\ (Raw.pagination /= None /\ Get(Raw.pagination).page_size /= None) =>
       LET n == Get(Get(Raw.pagination).page_size)
       IN n.tenths = 0 /\ n.whole \in 1..50

\* C20: a listNotes / listRecordings invocation with valid input whose
\* request succeeds at the first attempt issues exactly one POST, to /notes
\* or /recordings, and returns the response body unchanged as
\* structuredContent, whatever cursor it carries.
C20_SinglePostPassThrough ==
  (IsListTool /\ Finished /\ StatedValidInput /\ Len(Resp) >= 1 /\ Resp[1].ok) =>
    /\ Len(Reqs) = 1
    /\ Reqs[1].method = "post"
    /\ Reqs[1].url = (IF kind[Main] = "listNotes" THEN "/notes" ELSE "/recordings")
    /\ outcome[Main].type = "return"
    /\ Get(outcome[Main].body).structuredContent = Get(Resp[1].data)

\* a finished listRecordings invocation whose only response carried a next
\* cursor
C20_Witness ==
  /\ kind[Main] = "listRecordings" /\ Finished /\ StatedValidInput
  /\ Len(Resp) = 1 /\ Resp[1].ok
  /\ Get(Resp[1].data).namedCursor = Some("cursor-1")
  /\ Len(Reqs) = 1
  /\ Get(outcome[Main].body).structuredContent.namedCursor = Some("cursor-1")

\* the include flags the caller set to true
StatedTrueFlags ==
  IF Raw.include = None THEN {}
  ELSE {f \in DOMAIN Get(Raw.include) : Get(Raw.include)[f]}

\* C21: the request body has an include object only when at least one
\* include flag is true, and then exactly the true flags; filters and
\* pagination appear only when the caller supplied them.
C21_BodyCarriesOnlySuppliedParts ==
  IsListTool =>
    \A i \in 1..Len(Reqs) :
      LET body == Get(Reqs[i].data)
      IN /\ (body.include /= None) <=> (StatedTrueFlags /= {})
         /\ body.include /= None =>
              /\ DOMAIN Get(body.include) = StatedTrueFlags
              /\ \A f \in StatedTrueFlags : Get(body.include)[f] = TRUE
         /\ body.filters = Raw.filters
         /\ (body.pagination /= None) <=> (Raw.pagination /= None)

\* listNotes asked with one flag false and one true and with filters, no
\* pagination: the body carries the true flag only
C21_Witness ==
  /\ kind[Main] = "listNotes" /\ Len(Reqs) = 1
  /\ Raw.include = Some([content_markdown |-> FALSE, event_attendees |-> TRUE])
  /\ Get(Reqs[1].data).include = Some([event_attendees |-> TRUE])
  /\ Raw.filters /= None /\ Get(Reqs[1].data).filters = Raw.filters
  /\ Raw.pagination = None /\ Get(Reqs[1].data).pagination = None

----------------------------------------------------------------------------
(* Properties of one invocation of any tool (specification SpecHandlers)    *)

Invoked == pc[Main] /= "idle"

\* validation refused the input: the handler has failed with the validation
\* error
Rejected == Finished /\ outcome[Main] = Throw(ZodError)

GivenPageSize == Raw.pagination /= None /\ Get(Raw.pagination).page_size /= None

StatedPageSizeOk ==
  LET n == Get(Get(Raw.pagination).page_size)
  IN n.tenths = 0 /\ n.whole \in 1..50

IsGetTool == kind[Main] \in {"getNote", "getRecording"}

\* the id the get tool was given, if any
LacksId == "raw" \in DOMAIN args[Main] /\ args[Main].raw = None

\* C22: validation of listNotes / listRecordings accepts a page_size only if
\* it is an integer in 1..50, fills in page_size 20 and an absent cursor for
\* an empty pagination, and rejects input with an unknown property;
\* getNote / getRecording reject input without the id.
C22_ValidationRules ==
  /\ (Invoked /\ IsListTool) =>
       /\ (GivenPageSize /\ ~StatedPageSizeOk) => Rejected
       /\ Raw.unknown => Rejected
       /\ StatedValidInput => (~Rejected /\ Len(Reqs) >= 1)
       /\ (~Rejected /\ Raw.pagination = Some([cursor |-> [t |-> "undefined"], page_size |-> None])) =>
            Get(Reqs[1].data).pagination =
              Some([cursor |-> [t |-> "undefined"], page_size |-> 20])
  /\ (Invoked /\ IsGetTool) =>
       /\ LacksId => Rejected
       /\ ~LacksId => (~Rejected /\ Len(Reqs) >= 1)

\* listRecordings accepted with an empty pagination and sent page_size 20
C22_Witness ==
  /\ kind[Main] = "listRecordings" /\ Finished /\ ~Rejected
  /\ Raw.pagination = Some([cursor |-> [t |-> "undefined"], page_size |-> None])
  /\ Get(Get(Reqs[1].data).pagination).page_size = 20

----------------------------------------------------------------------------
(* Further properties of one invocation of call (specification Spec)        *)

\* C23: when attempts 1..j-1 (2 <= j <= 4) fail with retryable statuses and
\* attempt j fails terminally, exactly j requests are issued and the caller
\* receives attempt j's own error, neither the exhaustion error nor an
\* earlier attempt's.
C23_TerminalAfterRetries ==
  \A j \in 2..4 :
    ((\A i \in 1..(j - 1) : RetryableAt(i)) /\ TerminalAt(j)) =>
      /\ Len(Reqs) = j /\ Len(Resp) = j
      /\ Finished =>
           /\ outcome[Main] = Throw(ErrAt(j))
           /\ Get(outcome[Main].err).message /= "Upstream unavailable after retries"
           /\ Get(outcome[Main].err).status \notin {ErrAt(i).status : i \in 1..(j - 1)}

\* 429, then 500, then 404: the caller has the 404 error after 3 requests
C23_Witness ==
  /\ Finished /\ Len(Resp) = 3
  /\ RetryableAt(1) /\ ErrAt(1).status = 429 /\ ErrAt(1).message = "rate limited"
  /\ RetryableAt(2) /\ ErrAt(2).status = 500
  /\ TerminalAt(3) /\ ErrAt(3).status = 404
  /\ outcome[Main] = Throw(ErrAt(3))

\* C24 as stated: the attempt counter never exceeds 4 in any reachable state.
C24_AttemptNeverExceedsFour == attempt[Main] <= 4

\* C24, amended: every invocation of call terminates, returning a body or
\* raising an error, after at least 1 and at most 4 requests, provided every
\* request and every backoff wait completes; the attempt counter is in 1..4
\* whenever a request is in flight or a backoff is pending, and is 5 only
\* when the loop has been left for the exhaustion error.
C24_TerminatesWithinFourRequests ==
  /\ [](Len(Reqs) <= 4)
  /\ [](Finished => (Len(Reqs) >= 1 /\ outcome[Main].type \in {"return", "throw"}))
  /\ [](pc[Main] \in {"await", "backoff"} => attempt[Main] \in 1..4)
  /\ [](attempt[Main] > 4 =>
          (attempt[Main] = 5 /\ result[Main] = Throw(ExhaustedError)))
  /\ (Invoked ~> Finished)

\* the invocation has ended in exhaustion after 4 requests, the counter at 5
C24_Witness ==
  /\ Finished /\ Len(Reqs) = 4
  /\ outcome[Main] = Throw(ExhaustedError)
  /\ attempt[Main] = 5

\* C25: every attempt of one invocation sends the same request descriptor:
\* method, url and data of attempts 2..4 equal those of attempt 1, and
\* retrying never modifies the caller's descriptor.
C25_SameDescriptorEveryAttempt ==
  /\ [](\A i \in 1..Len(Reqs) :
          /\ Reqs[i].method = Reqs[1].method
          /\ Reqs[i].url = Reqs[1].url
          /\ Reqs[i].data = Reqs[1].data
          /\ Reqs[i] = [method |-> cfg[Main].method, url |-> cfg[Main].url,
                        data |-> cfg[Main].data])
  /\ [][Invoked => cfg'[Main] = cfg[Main]]_vars

\* four attempts of a post with a body, all four requests carrying it
C25_Witness ==
  /\ Len(Reqs) = 4
  /\ cfg[Main].method = "post" /\ cfg[Main].data /= None
  /\ \A i \in 1..4 : Reqs[i].data = cfg[Main].data

----------------------------------------------------------------------------
(* Further properties of one get-by-id invocation (specification SpecGet)   *)

\* a request was made: the input was accepted
Fetched == IsGet /\ Finished /\ Len(Resp) >= 1

CallFailed == Fetched /\ ~Resp[Len(Resp)].ok

IsNotFound ==
  /\ outcome[Main].type = "throw"
  /\ "id" \in DOMAIN args[Main]
  /\ Get(outcome[Main].err).message = NotFoundMessage(args[Main].entity, args[Main].id)

NonEmptyObject(v) == v.t = "object" /\ DOMAIN v.f /= {}

\* the entity of the response: the value at its place, or the first element
\* when that value is an array
StatedFirst ==
  IF StatedEntity.t = "array" /\ StatedEntity.e /= <<>>
    THEN StatedEntity.e[1] ELSE StatedEntity

\* what the operation hands back for entity v
StatedReturn(v) ==
  IF kind[Main] = "noteResource"
    THEN [uri |-> args[Main].id,
          text |-> IF /\ "content_markdown" \in DOMAIN v.f
                      /\ v.f["content_markdown"].t = "string"
                      /\ v.f["content_markdown"].s /= ""
                     THEN v.f["content_markdown"]
                     ELSE [t |-> "json", v |-> v]]
    ELSE [text |-> [t |-> "json", v |-> v], structuredContent |-> v]

\* C26: not-found is raised only after a successful fetch: when the call
\* fails the caller receives the call's error (the terminal error or the
\* exhaustion error), never not-found; when the response holds a non-empty
\* entity the operation returns it without error.
C26_NotFoundOnlyAfterSuccess ==
  /\ CallFailed =>
       /\ outcome[Main].type = "throw"
       /\ ~IsNotFound
       /\ TerminalAt(Len(Resp)) => outcome[Main] = Throw(ErrAt(Len(Resp)))
       /\ RetryableAt(Len(Resp)) =>
            Get(outcome[Main].err).message = "Upstream unavailable after retries"
  /\ (Finished /\ IsGet /\ IsNotFound) => (Len(Resp) >= 1 /\ Resp[Len(Resp)].ok)
  /\ (FetchSucceeded /\ NonEmptyObject(StatedFirst)) =>
       outcome[Main] = Return(StatedReturn(StatedFirst))

\* a getRecording whose call was exhausted by four 429s ends with the
\* exhaustion error
C26_Witness ==
  /\ kind[Main] = "getRecording" /\ CallFailed
  /\ Len(Resp) = 4 /\ RetryableAt(4)
  /\ outcome[Main] = Throw(ExhaustedError)

----------------------------------------------------------------------------
(* Properties of one aggregation run over mixed envelopes (SpecEnvelope)    *)

BothShapes(i) ==
  /\ IsSome(PageOf(i).namedData) /\ IsSome(PageOf(i).namedCursor)
  /\ IsSome(PageOf(i).rootData) /\ IsSome(PageOf(i).rootCursor)

NestedAbsent(i) == ~IsSome(PageOf(i).namedData) /\ ~IsSome(PageOf(i).namedCursor)

NeitherShape(i) ==
  NestedAbsent(i) /\ ~IsSome(PageOf(i).rootData) /\ ~IsSome(PageOf(i).rootCursor)

\* what page i is stated to contribute, and the cursor it is stated to give
StatedItems(i) ==
  IF PageOf(i).namedData /= None THEN Get(PageOf(i).namedData)
  ELSE IF PageOf(i).rootData /= None THEN Get(PageOf(i).rootData)
  ELSE <<>>

StatedCursor(i) ==
  IF PageOf(i).namedCursor /= None THEN PageOf(i).namedCursor ELSE PageOf(i).rootCursor

RECURSIVE StatedItemsUpTo(_)
StatedItemsUpTo(k) == IF k = 0 THEN <<>> ELSE StatedItemsUpTo(k - 1) \o StatedItems(k)

\* pages taken into the accumulator so far
Consumed == IF pc[Main] \in {"pause", "done"} THEN Len(Resp) ELSE Len(Reqs) - 1

----------------------------------------------------------------------------
(* Further properties of one invocation of any tool (SpecHandlers)          *)

\* the input does not satisfy the schema of the tool invoked
StatedInvalidInput ==
  \/ IsListTool /\ ~StatedValidInput
  \/ IsGetTool /\ LacksId
  \/ kind[Main] = "getMe" /\ Raw.unknown

\* C28: input that fails schema validation makes the handler fail before
\* any network request: a rejected invocation performs zero requests.
C28_RejectedBeforeAnyRequest ==
  /\ (Invoked /\ StatedInvalidInput) => (Rejected /\ Len(Reqs) = 0 /\ Len(Resp) = 0)
  /\ (Invoked /\ outcome[Main] = Throw(ZodError)) => Len(Reqs) = 0

\* listNotes refused for a page_size of 51: no request was made
C28_Witness ==
  /\ kind[Main] = "listNotes" /\ Rejected
  /\ ~Raw.unknown
  /\ Get(Get(Raw.pagination).page_size) = [whole |-> 51, tenths |-> 0]
  /\ Len(Reqs) = 0

----------------------------------------------------------------------------
(* The place of the entity in a get-by-id response (specification SpecGet)  *)

\* v is an entity, or an array that starts with one
IsEntity(v) ==
  \/ NonEmptyObject(v)
  \/ v.t = "array" /\ v.e /= <<>> /\ NonEmptyObject(v.e[1])

FirstOf(v) == IF v.t = "array" THEN v.e[1] ELSE v

HasKey(k) == Payload.t = "object" /\ k \in DOMAIN Payload.f

Returns(v) == outcome[Main] = Return(StatedReturn(FirstOf(v)))

\* C29: a get-by-id operation returns the entity whether the response nests
\* it under the named key, under data, or has it at the root, probed in that
\* order; of a candidate that is an array it returns the first element.
C29_EntityProbedInOrder ==
  FetchSucceeded =>
    /\ (HasKey(args[Main].key) /\ IsEntity(Payload.f[args[Main].key])) =>
         Returns(Payload.f[args[Main].key])
    /\ (~HasKey(args[Main].key) /\ HasKey("data") /\ IsEntity(Payload.f["data"])) =>
         Returns(Payload.f["data"])
    /\ (~HasKey(args[Main].key) /\ ~HasKey("data") /\ IsEntity(Payload)) =>
         Returns(Payload)

\* getNote answered with the entity under note and another under data
\* returns the one under note
C29_Witness ==
  /\ kind[Main] = "getNote" /\ FetchSucceeded
  /\ HasKey("note") /\ HasKey("data")
  /\ Payload.f["note"] /= Payload.f["data"]
  /\ Get(outcome[Main].body).structuredContent = Payload.f["note"]

====
